---- MODULE Spec2Model ----
(***************************************************************************)
(* Polynomial continued fractions (unifier/pcf.py): the PCF value object,  *)
(* its transforms (subs, inflate, deflate_all, canonical, simplify) and    *)
(* its evaluations (step, limit, delta, convergence_rate,                  *)
(* compute_dynamics).                                                      *)
(*                                                                         *)
(* A sympy rational function is kept in factored form: a nonzero rational  *)
(* coefficient c = <<num, den>> (den > 0, lowest terms) and a map f from   *)
(* primitive linear factors (al*sym + be, al > 0) to nonzero integer       *)
(* exponents.  In this form cancel/simplify are the normal form itself;    *)
(* products, substitutions, numerators, denominators, LCM and GCD are      *)
(* exact.                                                                  *)
(***************************************************************************)
EXTENDS Integers, Sequences, FiniteSets, TLC

(***************************************************************************)
(* Bounds of the model.                                                    *)
(***************************************************************************)
\* number of PCF objects alive in one run
MaxObjs == 3
\* largest depth handed to step and limit
MaxDepth == 3
\* step matrices with an entry above Cap in absolute value are left out
Cap == 30000
\* passes of the retry loop of PCFDynamics.delta followed in one run
MaxAttempts == 4

(***************************************************************************)
(* Integer and rational arithmetic.                                        *)
(***************************************************************************)
Abs(x) == IF x < 0 THEN -x ELSE x

Sign(x) == IF x < 0 THEN -1 ELSE 1

Max(x, y) == IF x >= y THEN x ELSE y

Min(x, y) == IF x <= y THEN x ELSE y

RECURSIVE Gcd(_, _)
Gcd(x, y) == IF y = 0 THEN Abs(x) ELSE Gcd(y, x % Abs(y))

Lcm(x, y) == (Abs(x) \div Gcd(x, y)) * Abs(y)

RECURSIVE Pow(_, _)
Pow(x, e) == IF e = 0 THEN 1 ELSE x * Pow(x, e - 1)

\* the rational nu/de in lowest terms with a positive denominator (de # 0)
Rat(nu, de) ==
    LET g == Gcd(nu, de)
    IN  <<Sign(de) * (nu \div g), Abs(de) \div g>>

RatMul(r, s) == Rat(r[1] * s[1], r[2] * s[2])

RatInv(r) == Rat(r[2], r[1])

(***************************************************************************)
(* sympy expressions in factored form.                                     *)
(***************************************************************************)
Atom(sym, al, be) == [sym |-> sym, al |-> al, be |-> be]

NoFactors == [x \in {} |-> 0]

Expr(c, f) == [c |-> c, f |-> f]

\* sp.Integer(k), k # 0
Const(k) == Expr(<<k, 1>>, NoFactors)

One == Const(1)

Exp(f, x) == IF x \in DOMAIN f THEN f[x] ELSE 0

\* the factor map g restricted to its support
Support(S, g(_)) == [x \in {y \in S : g(y) # 0} |-> g(x)]

\* e1 * e2
Mul(e1, e2) ==
    LET g(x) == Exp(e1.f, x) + Exp(e2.f, x)
    IN  Expr(RatMul(e1.c, e2.c), Support(DOMAIN e1.f \cup DOMAIN e2.f, g))

\* 1 / e
Inv(e) == Expr(RatInv(e.c), [x \in DOMAIN e.f |-> -e.f[x]])

\* e.as_numer_denom()[0]
Numer(e) ==
    LET g(x) == IF e.f[x] > 0 THEN e.f[x] ELSE 0
    IN  Expr(<<e.c[1], 1>>, Support(DOMAIN e.f, g))

\* e.as_numer_denom()[1]
Denom(e) ==
    LET g(x) == IF e.f[x] < 0 THEN -e.f[x] ELSE 0
    IN  Expr(<<e.c[2], 1>>, Support(DOMAIN e.f, g))

\* a polynomial with integer coefficients: no denominator left
IsPolynomial(e) == e.c[2] = 1 /\ \A x \in DOMAIN e.f : e.f[x] > 0

\* sp.lcm of two integer polynomials
LcmExpr(d1, d2) ==
    LET g(x) == Max(Exp(d1.f, x), Exp(d2.f, x))
    IN  Expr(<<Lcm(d1.c[1], d2.c[1]), 1>>, Support(DOMAIN d1.f \cup DOMAIN d2.f, g))

\* sp.gcd of two integer polynomials
GcdExpr(d1, d2) ==
    LET g(x) == Min(Exp(d1.f, x), Exp(d2.f, x))
    IN  Expr(<<Gcd(d1.c[1], d2.c[1]), 1>>, Support(DOMAIN d1.f \cap DOMAIN d2.f, g))

\* e.subs({from: to}) for two symbols
SubsSym(e, from, to) ==
    LET ren(x) == IF x.sym = from THEN Atom(to, x.al, x.be) ELSE x
        T == {ren(x) : x \in DOMAIN e.f}
        src(y) == {x \in DOMAIN e.f : ren(x) = y}
        g(y) == IF src(y) = {} THEN 0
                ELSE LET S == src(y)
                         x1 == CHOOSE x \in S : TRUE
                     IN  IF Cardinality(S) = 1 THEN e.f[x1]
                         ELSE e.f[x1] + e.f[CHOOSE x \in S : x # x1]
    IN  Expr(e.c, Support(T, g))

\* e.subs({n: n + s})
SubsShift(e, s) ==
    LET sh(x) == IF x.sym = "n" THEN Atom("n", x.al, x.be + x.al * s) ELSE x
        back(y) == IF y.sym = "n" THEN Atom("n", y.al, y.be - y.al * s) ELSE y
    IN  Expr(e.c, [y \in {sh(x) : x \in DOMAIN e.f} |-> e.f[back(y)]])

\* the symbols e depends on
FreeSymbols(e) == {x.sym : x \in DOMAIN e.f}

RECURSIVE ProdOver(_, _, _, _)
\* the product over x in S of (al*k + be)^(sgn * e.f[x]) for the exponents of sign sgn
ProdOver(S, f, k, sgn) ==
    IF S = {} THEN 1
    ELSE LET x == CHOOSE y \in S : TRUE
             p == IF sgn * f[x] > 0 THEN Pow(x.al * k + x.be, sgn * f[x]) ELSE 1
         IN  p * ProdOver(S \ {x}, f, k, sgn)

\* e.subs({n: k}): a rational number, "zoo" at a pole, "symbolic" when another
\* symbol is left
Eval(e, k) ==
    IF FreeSymbols(e) \ {"n"} # {} THEN [kind |-> "symbolic"]
    ELSE LET nu == e.c[1] * ProdOver(DOMAIN e.f, e.f, k, 1)
             de == e.c[2] * ProdOver(DOMAIN e.f, e.f, k, -1)
         IN  IF de = 0 THEN [kind |-> "zoo"]
             ELSE [kind |-> "num", v |-> Rat(nu, de)]

(***************************************************************************)
(* The PCF object.                                                         *)
(***************************************************************************)
\* PCF.__init__: a_compute and b_compute are built from the arguments a and b as
\* passed, self.a and self.b from their substitution into the index n
PCF(a, b, variable, inflated_by) ==
    LET self_a == SubsSym(a, variable, "n")
        self_b == SubsSym(b, variable, "n")
        L == LcmExpr(Denom(self_a), Denom(self_b))
    IN  [a |-> self_a,
         b |-> self_b,
         inflate_to_integer_polynomials |-> L,
         inflated_by |-> Mul(inflated_by, L),
         a_compute |-> Mul(a, L),
         b_compute |-> Mul(Mul(b, L), SubsShift(L, -1))]

\* PCF.subs with the dictionary {n: n + s}
subs(self, s) == PCF(SubsShift(self.a, s), SubsShift(self.b, s), "n", One)

\* inflate handing the constructor the receiver's inflated_by as it is
inflate_seed_without_c(self, c) ==
    PCF(Mul(self.a, c), Mul(Mul(self.b, c), SubsShift(c, -1)), "n", self.inflated_by)

\* inflate with b*c(n)*c(n) in place of b*c(n)*c(n-1)
inflate_unshifted(self, c) ==
    PCF(Mul(self.a, c), Mul(Mul(self.b, c), c), "n", Mul(self.inflated_by, c))

\* PCF.inflate
inflate(self, c) ==
    PCF(Mul(self.a, c), Mul(Mul(self.b, c), SubsShift(c, -1)), "n",
        Mul(self.inflated_by, c))

\* content(p, q, [n]): the GCD of two integer polynomials
content(p, q) == GcdExpr(p, q)

\* PCF.deflate_all
deflate_all(self) == inflate(self, Inv(content(Numer(self.a), Numer(self.b))))

\* canonical returning the compute polynomials as they are, not deflated
canonical_skips_deflation(self, keep_inflated_by) ==
    LET pcf == PCF(self.a_compute, self.b_compute, "n", self.inflated_by)
    IN  IF ~keep_inflated_by THEN [pcf EXCEPT !.inflated_by = One] ELSE pcf

\* PCF.canonical
canonical(self, keep_inflated_by) ==
    LET pcf == deflate_all(PCF(self.a_compute, self.b_compute, "n", self.inflated_by))
    IN  IF ~keep_inflated_by THEN [pcf EXCEPT !.inflated_by = One] ELSE pcf

\* PCF.simplify
simplify(self) == PCF(self.a, self.b, "n", One)

(***************************************************************************)
(* Exact evaluation.  A 2x2 matrix [[p1, p2], [q1, q2]] is <<p1, p2, q1,   *)
(* q2>>.  With m = 0 the arithmetic is exact; with m > 0 it is carried out *)
(* modulo m (a residue of the exact result).  A value used several times   *)
(* is bound through a one-element set, which computes it once.             *)
(***************************************************************************)
Red(x, m) == IF m = 0 THEN x ELSE x % m

MatMul(A, B, m) ==
    <<Red(Red(A[1] * B[1], m) + Red(A[2] * B[3], m), m),
      Red(Red(A[1] * B[2], m) + Red(A[2] * B[4], m), m),
      Red(Red(A[3] * B[1], m) + Red(A[4] * B[3], m), m),
      Red(Red(A[3] * B[2], m) + Red(A[4] * B[4], m), m)>>

InCap(M) == \A i \in 1..4 : Abs(M[i]) <= Cap

\* int(x) of a sympy number: truncation toward zero
IntOf(r) == Sign(r[1]) * (Abs(r[1]) \div r[2])

\* the integer value of the polynomial e at index k
PolyAt(e, k, m) == Red(IntOf(Eval(e, k).v), m)

\* the recurrence matrix [[0, b(k)], [1, a(k)]] of the polynomials a_c, b_c
RecurrenceAt(a_c, b_c, k, m) == <<0, PolyAt(b_c, k, m), 1, PolyAt(a_c, k, m)>>

RECURSIVE Run(_, _, _, _, _, _)
\* mat * M(from) * ... * M(to); "out_of_range" once an entry leaves the Cap
Run(a_c, b_c, mat, from, to, m) ==
    IF from > to THEN [kind |-> "matrix", mat |-> mat]
    ELSE CHOOSE r \in { IF m = 0 /\ ~InCap(nxt) THEN [kind |-> "out_of_range"]
                        ELSE Run(a_c, b_c, nxt, from + 1, to, m) :
                        nxt \in {MatMul(mat, RecurrenceAt(a_c, b_c, from, m), m)} } : TRUE

\* eval without its depth check: a depth below 1 multiplies nothing onto mat
LPCFEval_unchecked_depth(a_c, b_c, mat, depth, m) ==
    IF ~IsPolynomial(a_c) \/ ~IsPolynomial(b_c)
       \/ ~(FreeSymbols(a_c) \cup FreeSymbols(b_c) \subseteq {"n"})
    THEN [kind |-> "error", err |-> "TypeError"]
    ELSE Run(a_c, b_c, mat, 1, depth, m)

\* LIReC PCF(a_compute, b_compute, mat = mat).eval(depth = depth), then .mat:
\* a fresh object starts at index 0 and multiplies M(1), ..., M(depth) onto mat
LPCFEval(a_c, b_c, mat, depth, m) ==
    IF ~IsPolynomial(a_c) \/ ~IsPolynomial(b_c)
       \/ ~(FreeSymbols(a_c) \cup FreeSymbols(b_c) \subseteq {"n"})
    THEN [kind |-> "error", err |-> "TypeError"]
    ELSE IF depth < 1 THEN [kind |-> "error", err |-> "ValueError"]
    ELSE Run(a_c, b_c, mat, 1, depth, m)

\* the values of the argument initial_conditions
NoInit == [type |-> "None"]

ListInit(M) == [type |-> "list", mat |-> M]

MatrixInit(M) == [type |-> "Matrix", mat |-> M]

OtherInit == [type |-> "other"]

\* step with the default initial conditions taken at index 1 instead of 0
step_initial_at_one(self, depth, initial_conditions, m) ==
    IF initial_conditions.type = "None" /\ Eval(self.a_compute, 0).kind # "num"
    THEN [kind |-> "error", err |-> "TypeError"]
    ELSE IF initial_conditions.type = "other"
    THEN [kind |-> "error", err |-> "ValueError"]
    ELSE LET mat == IF initial_conditions.type = "None"
                    THEN <<1, PolyAt(self.a_compute, 1, m), 0, 1>>
                    ELSE initial_conditions.mat
         IN  LPCFEval(self.a_compute, self.b_compute, mat, depth, m)

\* PCF.step
step(self, depth, initial_conditions, m) ==
    IF initial_conditions.type = "None" /\ Eval(self.a_compute, 0).kind # "num"
    THEN [kind |-> "error", err |-> "TypeError"]
    ELSE IF initial_conditions.type = "other"
    THEN [kind |-> "error", err |-> "ValueError"]
    ELSE LET mat == IF initial_conditions.type = "None"
                    THEN <<1, PolyAt(self.a_compute, 0, m), 0, 1>>
                    ELSE initial_conditions.mat
         IN  LPCFEval(self.a_compute, self.b_compute, mat, depth, m)

RECURSIVE FloorLog(_, _, _)
\* floor(log_base(x / y)) for integers x >= y >= 1
FloorLog(x, y, base) ==
    IF y <= x \div base THEN 1 + FloorLog(x \div base, y, base) ELSE 0

RECURSIVE CeilLog(_, _, _)
\* ceiling(log_base(x / y)) for integers x >= y >= 1
CeilLog(x, y, base) ==
    IF x <= y THEN 0 ELSE 1 + CeilLog((x + base - 1) \div base, y, base)

\* floor(-log_base(x / y)) in exact arithmetic, for integers x, y >= 1
FloorOfDigits(x, y, base) ==
    IF y >= x THEN FloorLog(y, x, base) ELSE -CeilLog(x, y, base)

\* mm.mp.dps, the setting of the process-wide mpmath context: precision takes
\* its logarithms with mm.log, in that context
VARIABLE dps

\* mm.mp.dps of a process that has not touched it
DefaultDps == 15

\* the operands (|numerator|, |denominator|, base), among those the runs hand
\* to precision, whose rounded logarithms differ by less than the exact
\* integer: log(5, 10) = 0.6989700043360189 and log(50, 10) =
\* 1.6989700043360187, each rounded to the 53 bits of 15 digits, differ by
\* 0.9999999999999998 and not by 1; at the 70 bits of 20 digits the difference
\* of every pair the runs reach is exact
RoundsShort(setting) == IF setting = DefaultDps THEN {<<5, 50, 10>>} ELSE {}

\* precision with digits = log(numerator, base) - log(denominator, base): the
\* sign of the difference is not turned round
precision_unnegated(matrix, base) ==
    LET numerator == matrix[2] * matrix[3] - matrix[4] * matrix[1]
        denominator == matrix[3] * matrix[4]
    IN  IF denominator = 0 THEN 0
        ELSE IF numerator = 0 THEN 100
        ELSE FloorOfDigits(Abs(denominator), Abs(numerator), base)

\* precision(matrix, base) in a process whose mm.mp.dps is setting: floor of
\* digits = -(log(numerator, base) - log(denominator, base)), the difference
\* taken between the rounded logarithms
precision_at(matrix, base, setting) ==
    LET numerator == matrix[2] * matrix[3] - matrix[4] * matrix[1]
        denominator == matrix[3] * matrix[4]
    IN  IF denominator = 0 THEN 0
        ELSE IF numerator = 0 THEN 100
        ELSE IF <<Abs(numerator), Abs(denominator), base>> \in RoundsShort(setting)
             THEN FloorOfDigits(Abs(numerator), Abs(denominator), base) - 1
             ELSE FloorOfDigits(Abs(numerator), Abs(denominator), base)

\* precision(matrix, base)
precision(matrix, base) == precision_at(matrix, base, dps)

\* n + 1
NPlusOne == Expr(<<1, 1>>, [x \in {Atom("n", 1, 1)} |-> 1])

\* PCF.limit with prec = None, returning the exact rational (result, prec);
\* LimitOf is its body after the step matrix s has been computed
LimitOf(self, s) ==
    LET infl == Eval(Mul(self.inflated_by, NPlusOne), 0)
    IN  IF s.kind # "matrix" THEN s
        ELSE IF infl.kind # "num" THEN [kind |-> "error", err |-> "TypeError"]
        ELSE LET numerator == s.mat[2] * infl.v[2]
                 denominator == s.mat[4] * infl.v[1]
                 result == IF denominator # 0
                           THEN [k |-> "num", v |-> Rat(numerator, denominator)]
                           ELSE IF numerator # 0 THEN [k |-> "zoo"] ELSE [k |-> "nan"]
             IN  [kind |-> "limit", result |-> result, prec |-> precision(s.mat, 10)]

limit(self, depth, initial_conditions) ==
    CHOOSE r \in { LimitOf(self, s) : s \in {step(self, depth, initial_conditions, 0)} } : TRUE

(***************************************************************************)
(* Dynamical metrics.  The logarithms are left unevaluated: a metric is    *)
(* the record of the exact quantities its logarithm is taken of, "inf"     *)
(* when the approximant equals the limit.                                  *)
(***************************************************************************)
\* delta without the test of reduced_q: the logarithm to the base 1 is +inf
DeltaOf_inf_when_undefined(step_mat, lim) ==
        IF step_mat.kind # "matrix" THEN step_mat
        ELSE IF lim.kind # "limit" THEN lim
        ELSE IF lim.result.k # "num"
        THEN [kind |-> "error", err |-> "ZeroDivisionError"]
        ELSE LET p == step_mat.mat[2]
                 q == step_mat.mat[4]
                 gcd == Gcd(p, q)
             IN  IF q = 0 THEN [kind |-> "error", err |-> "TypeError"]
                 ELSE IF q \div gcd = 1 \/ lim.result.v = Rat(p, q) THEN [kind |-> "inf"]
                 ELSE [kind |-> "value", limit |-> lim.result.v,
                       approximant |-> Rat(p, q), reduced_q |-> q \div gcd]

\* PCF.delta(depth) with limit = None; DeltaOf is its body after the step matrix
\* and the limit have been computed
DeltaOf(step_mat, lim) ==
        IF step_mat.kind # "matrix" THEN step_mat
        ELSE IF lim.kind # "limit" THEN lim
        ELSE IF lim.result.k # "num"
        THEN [kind |-> "error", err |-> "ZeroDivisionError"]
        ELSE LET p == step_mat.mat[2]
                 q == step_mat.mat[4]
                 gcd == Gcd(p, q)
             IN  IF q = 0 THEN [kind |-> "error", err |-> "TypeError"]
                 ELSE IF q \div gcd = 1 THEN [kind |-> "None"]
                 ELSE IF lim.result.v = Rat(p, q) THEN [kind |-> "inf"]
                 ELSE [kind |-> "value", limit |-> lim.result.v,
                       approximant |-> Rat(p, q), reduced_q |-> q \div gcd]

delta(self, depth) ==
    CHOOSE r \in { DeltaOf(step_mat, lim) : step_mat \in {step(self, depth, NoInit, 0)},
                                            lim \in {limit(self, 2 * depth, NoInit)} } : TRUE

\* PCF.convergence_rate(depth) with limit = None; ConvergenceRateOf is its body
\* after the two limits have been computed
ConvergenceRateOf(lim, approximant, depth) ==
        IF lim.kind # "limit" THEN lim
        ELSE IF approximant.kind # "limit" THEN approximant
        ELSE IF lim.result.k # "num" \/ approximant.result.k # "num"
        THEN [kind |-> "error", err |-> "TypeError"]
        ELSE IF lim.result.v = approximant.result.v THEN [kind |-> "inf"]
        ELSE [kind |-> "value", limit |-> lim.result.v,
              approximant |-> approximant.result.v, depth |-> depth]

convergence_rate(self, depth) ==
    CHOOSE r \in { ConvergenceRateOf(lim, approximant, depth) :
                       lim \in {limit(self, 2 * depth, NoInit)},
                       approximant \in {limit(self, depth, NoInit)} } : TRUE

\* the first loop of compute_dynamics left after one pass
DeltaLoop_one_pass(self, depth, i, max_iters, depth_shift, dlt) ==
    IF ~(i < max_iters) THEN dlt
    ELSE CHOOSE r \in { IF d.kind \in {"value", "out_of_range"} THEN d ELSE dlt :
                        d \in {delta(self, depth)} } : TRUE

RECURSIVE DeltaLoop(_, _, _, _, _, _)
\* the first loop of compute_dynamics from its i-th pass on; delta is the value
\* held so far; float(None) and every error of delta are caught
DeltaLoop(self, depth, i, max_iters, depth_shift, dlt) ==
    IF ~(i < max_iters) \/ dlt.kind \notin {"inf", "out_of_range"} THEN dlt
    ELSE IF dlt.kind = "out_of_range" THEN dlt
    ELSE CHOOSE r \in { DeltaLoop(self, depth + depth_shift, i + 1, max_iters, depth_shift,
                                  IF d.kind \in {"value", "out_of_range"} THEN d ELSE dlt) :
                        d \in {delta(self, depth)} } : TRUE

\* the second loop without its except clause: an error of convergence_rate
\* leaves the loop and the call
ConvrateLoop_uncaught(self, depth, i, max_iters, depth_shift) ==
    IF ~(i < max_iters) THEN [kind |-> "zero"]
    ELSE convergence_rate(self, depth)

RECURSIVE ConvrateLoop(_, _, _, _, _)
\* the second loop of compute_dynamics: the first attempt that does not raise
ConvrateLoop(self, depth, i, max_iters, depth_shift) ==
    IF ~(i < max_iters) THEN [kind |-> "zero"]
    ELSE CHOOSE r \in { IF c.kind \in {"value", "inf", "out_of_range"} THEN c
                        ELSE ConvrateLoop(self, depth + depth_shift, i + 1, max_iters,
                                          depth_shift) :
                        c \in {convergence_rate(self, depth)} } : TRUE

\* PCF.compute_dynamics(depth, max_iters, depth_shift)
compute_dynamics(self, depth, max_iters, depth_shift) ==
    [kind |-> "dynamics",
     delta |-> DeltaLoop(self, depth, 0, max_iters, depth_shift, [kind |-> "inf"]),
     convrate |-> ConvrateLoop(self, depth, 0, max_iters, depth_shift)]

(***************************************************************************)
(* recurrence_transforms_utils: the shift to a viable PCF.                 *)
(***************************************************************************)
\* the largest element of a nonempty set of integers
SetMax(S) == CHOOSE x \in S : \A y \in S : y <= x

\* [z for z in sp.solve(e, n) if isinstance(z, sp.Integer)]: the integer roots
\* in n of the integer polynomial e
IntegerZeros(e) ==
    { -(Sign(x.al) * x.be) \div Abs(x.al) :
        x \in {y \in DOMAIN e.f : y.sym = "n" /\ y.be % Abs(y.al) = 0} }

get_zeros(pcf) ==
    [b_num |-> IntegerZeros(Numer(pcf.b)),
     b_den |-> IntegerZeros(Denom(pcf.b)),
     a_den |-> IntegerZeros(Denom(pcf.a))]

get_shift(pcf) ==
    LET zeros == get_zeros(pcf)
        shifta_den == IF zeros.a_den # {} THEN SetMax(zeros.a_den) + 1 ELSE 0
        shiftb_den == IF zeros.b_den # {} THEN SetMax(zeros.b_den) ELSE 0
        shiftb_num == IF zeros.b_num # {} THEN SetMax(zeros.b_num) ELSE 0
    IN  Max(shifta_den, Max(shiftb_den, shiftb_num))

\* the pair (pcf.subs({n: n + shift}), shift)
shift_to_viable(pcf) ==
    LET shift == get_shift(pcf)
    IN  [pcf |-> subs(pcf, shift), shift |-> shift]

(***************************************************************************)
(* recurrence_transforms_utils: folding and the transport of a limit.      *)
(* A symbolic 2x2 matrix is the sequence <<a, b, c, d>> of its cells, row   *)
(* by row.  The factored form holds a sum when one summand is 0 or when    *)
(* the summands, their shared factors taken out, are of degree at most 1;  *)
(* every other sum is Unrepresentable and the call is left out of the runs.*)
(***************************************************************************)
Zero == Expr(<<0, 1>>, NoFactors)

Unrepresentable == Expr(<<0, 0>>, NoFactors)

RatAdd(r, s) == Rat(r[1] * s[2] + s[1] * r[2], r[2] * s[2])

\* e1 * e2 where a factor may be 0
Times(e1, e2) ==
    IF e1.c[2] = 0 \/ e2.c[2] = 0 THEN Unrepresentable
    ELSE IF e1.c = <<0, 1>> \/ e2.c = <<0, 1>> THEN Zero
    ELSE Mul(e1, e2)

\* a constant or a rational multiple of one linear factor in n
IsLinear(e) ==
    /\ Cardinality(DOMAIN e.f) <= 1
    /\ \A x \in DOMAIN e.f : x.sym = "n" /\ e.f[x] = 1

\* the coefficients <<A, B>> of a linear e = A*n + B
Coefficients(e) ==
    IF DOMAIN e.f = {} THEN <<(<<0, 1>>), e.c>>
    ELSE LET x == CHOOSE y \in DOMAIN e.f : TRUE
         IN  <<RatMul(e.c, <<x.al, 1>>), RatMul(e.c, <<x.be, 1>>)>>

\* A*n + B in factored form: a rational times a primitive factor al*n + be, al > 0
LinearExpr(A, B) ==
    IF A[1] = 0 THEN Expr(B, NoFactors)
    ELSE LET D == Lcm(A[2], B[2])
             al == A[1] * (D \div A[2])
             be == B[1] * (D \div B[2])
             g == Gcd(al, be)
         IN  Expr(Rat(Sign(al) * g, D),
                  [x \in {Atom("n", Abs(al) \div g, (Sign(al) * be) \div g)} |-> 1])

\* the factors two expressions share
CommonFactors(e1, e2) ==
    LET g(x) == IF Exp(e1.f, x) > 0 /\ Exp(e2.f, x) > 0
                THEN Min(Exp(e1.f, x), Exp(e2.f, x))
                ELSE IF Exp(e1.f, x) < 0 /\ Exp(e2.f, x) < 0
                THEN Max(Exp(e1.f, x), Exp(e2.f, x))
                ELSE 0
    IN  Expr(<<1, 1>>, Support(DOMAIN e1.f \cap DOMAIN e2.f, g))

\* sp.expand(e1 + e2): the shared factors G times the sum of what is left
Plus(e1, e2) ==
    IF e1.c[2] = 0 \/ e2.c[2] = 0 THEN Unrepresentable
    ELSE IF e1.c = <<0, 1>> THEN e2
    ELSE IF e2.c = <<0, 1>> THEN e1
    ELSE CHOOSE sum \in
           { IF IsLinear(r[1]) /\ IsLinear(r[2])
             THEN Times(r[3], LinearExpr(RatAdd(Coefficients(r[1])[1], Coefficients(r[2])[1]),
                                         RatAdd(Coefficients(r[1])[2], Coefficients(r[2])[2])))
             ELSE Unrepresentable :
             r \in { <<Mul(e1, Inv(G)), Mul(e2, Inv(G)), G>> : G \in {CommonFactors(e1, e2)} } } :
           TRUE

\* the factor al*(k*n + c) + be of n, made primitive
AffineImage(x, k, c) ==
    IF x.sym # "n" THEN x
    ELSE LET g == Gcd(x.al * k, x.al * c + x.be)
         IN  Atom("n", (x.al * k) \div g, (x.al * c + x.be) \div g)

RECURSIVE AffineContent(_, _, _, _)
\* the rational pulled out of the factors in S by n -> k*n + c
AffineContent(S, f, k, c) ==
    IF S = {} THEN <<1, 1>>
    ELSE LET x == CHOOSE y \in S : TRUE
             g == IF x.sym # "n" THEN 1 ELSE Gcd(x.al * k, x.al * c + x.be)
             r == IF f[x] > 0 THEN <<Pow(g, f[x]), 1>> ELSE <<1, Pow(g, -f[x])>>
         IN  RatMul(r, AffineContent(S \ {x}, f, k, c))

\* e.subs({n: k*n + c}), k >= 1
SubsAffine(e, k, c) ==
    IF e.c[2] = 0 \/ e.c = <<0, 1>> THEN e
    ELSE Expr(RatMul(e.c, AffineContent(DOMAIN e.f, e.f, k, c)),
              [y \in {AffineImage(x, k, c) : x \in DOMAIN e.f} |->
                  e.f[CHOOSE x \in DOMAIN e.f : AffineImage(x, k, c) = y]])

\* the product of two symbolic matrices: cell j is in row (j - 1) \div 2 and
\* column (j - 1) % 2
MatTimes(X, Y) ==
    [j \in 1..4 |-> Plus(Times(X[2 * ((j - 1) \div 2) + 1], Y[((j - 1) % 2) + 1]),
                         Times(X[2 * ((j - 1) \div 2) + 2], Y[((j - 1) % 2) + 3]))]

RECURSIVE FoldFrom(_, _, _, _)
\* the loop of fold_matrix from its i-th pass on
FoldFrom(folded, mat, factor, i) ==
    IF i >= factor THEN folded
    ELSE FoldFrom(MatTimes(folded, [j \in 1..4 |-> SubsAffine(mat[j], factor, -(factor - 1 - i))]),
                  mat, factor, i + 1)

\* fold_matrix with the loop run once, whatever the factor
fold_matrix_one_pass(mat, factor) == FoldFrom(<<One, Zero, Zero, One>>, mat, 1, 0)

fold_matrix(mat, factor) == FoldFrom(<<One, Zero, Zero, One>>, mat, factor, 0)

\* inflate_to_polynomial that returns the PCF handed in, next to the factor
inflate_to_polynomial_in_place(pcf, defalte_all) ==
    [pcf |-> pcf,
     factor |-> Mul(LcmExpr(Denom(pcf.a), Denom(pcf.b)),
                    Inv(IF defalte_all THEN content(pcf.a, pcf.b) ELSE One))]

\* inflate_to_polynomial(pcf, defalte_all): the pair (pcf, factor)
inflate_to_polynomial(pcf, defalte_all) ==
    CHOOSE pair \in
      { [pcf |-> IF defalte_all THEN inflate(v[2], Inv(v[3])) ELSE v[2],
         factor |-> Mul(v[1], Inv(v[3]))] :
        v \in { <<u[1], u[2], IF defalte_all THEN content(u[2].a, u[2].b) ELSE One>> :
                u \in { <<lcm, simplify(inflate(pcf, lcm))>> :
                        lcm \in {LcmExpr(Denom(pcf.a), Denom(pcf.b))} } } } :
      TRUE

\* the arguments a and b as_pcf hands to the constructor
AsPcfArgs(matrix) ==
    [a |-> Plus(Times(matrix[3], SubsShift(matrix[1], 1)),
                Times(matrix[4], SubsShift(matrix[3], 1))),
     b |-> Times(Times(Plus(Times(matrix[2], matrix[3]),
                            Times(Const(-1), Times(matrix[1], matrix[4]))),
                       SubsShift(matrix[3], -1)),
                 SubsShift(matrix[3], 1))]

\* as_pcf is defined in the model where a and b are representable and not 0
AsPcfInRange(matrix) ==
    /\ \A j \in 1..4 : matrix[j].c[2] # 0
    /\ \A args \in {AsPcfArgs(matrix)} :
          /\ args.a.c[2] # 0 /\ args.a.c # <<0, 1>>
          /\ args.b.c[2] # 0 /\ args.b.c # <<0, 1>>

as_pcf(matrix, deflate) ==
    CHOOSE pcf \in
      { IF deflate THEN deflate_all(polynomial) ELSE polynomial :
        polynomial \in { inflate_to_polynomial(PCF(args.a, args.b, "n", One), deflate).pcf :
                         args \in {AsPcfArgs(matrix)} } } :
      TRUE

\* as_pcf_eta without the deflation: the constant 1 in both modes
as_pcf_eta_one(matrix, deflate) == One

as_pcf_eta(matrix, deflate) ==
    IF deflate
    THEN CHOOSE eta \in { content(pcf.a, pcf.b) : pcf \in {as_pcf(matrix, FALSE)} } : TRUE
    ELSE One

as_pcf_cob(matrix, deflate) ==
    MatTimes(MatTimes(<<One, matrix[1], Zero, matrix[3]>>,
                      <<SubsShift(as_pcf_eta(matrix, deflate), -1), Zero, Zero, One>>),
             <<One, Zero, Zero, SubsShift(matrix[3], -1)>>)

\* as_pcf_polys(matrix, deflate_all = deflate): the pair (g1, g2)
as_pcf_polys(matrix, deflate) ==
    <<SubsShift(matrix[3], -1), as_pcf_eta(matrix, deflate)>>

\* a 2x2 matrix of rational numbers: product, determinant, inverse
NumMatMul(X, Y) ==
    <<RatAdd(RatMul(X[1], Y[1]), RatMul(X[2], Y[3])), RatAdd(RatMul(X[1], Y[2]), RatMul(X[2], Y[4])),
      RatAdd(RatMul(X[3], Y[1]), RatMul(X[4], Y[3])), RatAdd(RatMul(X[3], Y[2]), RatMul(X[4], Y[4]))>>

NumDet(X) == RatAdd(RatMul(X[1], X[4]), RatMul(<<-1, 1>>, RatMul(X[2], X[3])))

NumInv(X) ==
    LET r == RatInv(NumDet(X))
    IN  <<RatMul(X[4], r), RatMul(RatMul(<<-1, 1>>, X[2]), r), RatMul(RatMul(<<-1, 1>>, X[3]), r), RatMul(X[1], r)>>

\* matrix.subs({n: k}) where every cell has a value
MatAt(matrix, k) == [j \in 1..4 |-> Eval(matrix[j], k).v]

MatDefinedAt(matrix, k) == \A j \in 1..4 : Eval(matrix[j], k).kind = "num"

\* mobius(matrix, z): (a*z + b)/(c*z + d)
mobius(matrix, z) ==
    IF z.k = "str" THEN [kind |-> "error", err |-> "ValueError"]
    ELSE LET nu == RatAdd(RatMul(matrix[1], z.v), matrix[2])
             de == RatAdd(RatMul(matrix[3], z.v), matrix[4])
         IN  [kind |-> "value",
              v |-> IF de[1] # 0 THEN [k |-> "num", v |-> RatMul(nu, RatInv(de))]
                    ELSE IF nu[1] # 0 THEN [k |-> "zoo"] ELSE [k |-> "nan"]]

\* the classes of the PCF objects a caller has: the one of unifier/pcf.py with
\* the methods CM and A, and the ramanujantools one with M and A
Classes == {"unifier.pcf.PCF", "ramanujantools.pcf.PCF"}

\* the object of class cls with the a and b of pcf
AsClass(cls, pcf) == [cls |-> cls, a |-> pcf.a, b |-> pcf.b]

\* the recurrence matrix [[0, b], [1, a]] and pcf.A() = [[1, a(0)], [0, 1]]
RecurrenceMatrix(pcf) == <<Zero, pcf.b, One, pcf.a>>

A(pcf) == <<One, Expr(Eval(pcf.a, 0).v, NoFactors), Zero, One>>

\* foldedpcf.A() * U.subs({n: 1}).inv() * pcf.A().inv() handed to mobius with z,
\* after the test of det U(1)
TransportAt(pcf, foldedpcf, U, z) ==
    IF (\E j \in 1..4 : U[j].c[2] = 0) \/ ~MatDefinedAt(U, 1)
       \/ Eval(pcf.a, 0).kind # "num" \/ Eval(foldedpcf.a, 0).kind # "num"
    THEN [kind |-> "out_of_range"]
    ELSE IF NumDet(MatAt(U, 1))[1] = 0
    THEN [kind |-> "error", err |-> "SingularCoboundaryMatrixError"]
    ELSE mobius(NumMatMul(NumMatMul(MatAt(A(foldedpcf), 0), NumInv(MatAt(U, 1))),
                          NumInv(MatAt(A(pcf), 0))),
                z)

\* the transport of get_folded_pcf_limit once pcf.M() has returned
TransportOf(pcf, foldedmat, z, deflate) ==
    IF ~AsPcfInRange(foldedmat) THEN [kind |-> "out_of_range"]
    ELSE TransportAt(pcf, as_pcf(foldedmat, deflate), as_pcf_cob(foldedmat, deflate), z)

\* get_folded_pcf_limit(pcf, factor, limit, deflate_all = deflate); the
\* class of unifier/pcf.py has no method M
get_folded_pcf_limit(pcf, factor, z, deflate) ==
    IF pcf.cls = "unifier.pcf.PCF" THEN [kind |-> "error", err |-> "AttributeError"]
    ELSE CHOOSE r \in { TransportOf(pcf, foldedmat, z, deflate) :
                        foldedmat \in {fold_matrix(RecurrenceMatrix(pcf), factor)} } : TRUE

\* fold_pcf(pcf, factor)
fold_pcf(pcf, factor) ==
    IF pcf.cls = "unifier.pcf.PCF" THEN [kind |-> "error", err |-> "AttributeError"]
    ELSE [kind |-> "pcf", pcf |-> as_pcf(fold_matrix(RecurrenceMatrix(pcf), factor), TRUE)]

\* the fold of pcf by factor stays within what the factored form holds
InFoldRange(pcf, factor, deflate) ==
    TransportOf(pcf, fold_matrix(RecurrenceMatrix(pcf), factor), [k |-> "str"], deflate).kind
        # "out_of_range"

(***************************************************************************)
(* pcf_dynamical_parameters: PCFDynamics.  The wrapped PCF answers         *)
(* pcf.limit(iterations) with one limit per convergent index, counted as   *)
(* the class docstring says: 0 <-> I, 1 <-> pcf.A(), 2 <-> pcf.A() * M1.    *)
(* errors and q_reds are modelled by the convergent indices they ask for   *)
(* and use; scipy's curve_fit returns whatever parameters it finds, in     *)
(* hundredths here, or raises RuntimeError.                                *)
(***************************************************************************)
\* PCFDynamics.CIDS()
CIDS == 2

\* FACTORIAL_REDUCTION_TOLERANCE = 5e-2, in hundredths
FACTORIAL_REDUCTION_TOLERANCE == 5

\* the values a fitted coefficient takes, in hundredths: below the tolerance in
\* magnitude, and at it with the sign reversed
FitValues == {-5, 4}

RECURSIVE Sorted(_)
\* sorted(list(set(...))) of a set of integers
Sorted(S) ==
    IF S = {} THEN <<>>
    ELSE CHOOSE s \in { <<lo>> \o Sorted(S \ {lo}) :
                        lo \in {x \in S : \A y \in S : x <= y} } : TRUE

\* PCFDynamics.check_positive(depth): FALSE stands for the ValueError
check_positive(depth) == depth >= 1

\* PCFDynamics.depths_for_fit(depth)
depths_for_fit(depth) == Sorted({6, depth \div 8, depth \div 4, depth \div 2, depth})

\* PCFDynamics.errors(depths, limit = lim): iterations are the indices handed
\* to pcf.limit, convergents[i] the index of the limit the error of depths[i]
\* is taken from, reference the index of the limit they are compared with
errors(depths, lim) ==
    CHOOSE out \in
      { IF ~check_positive(ds[1]) THEN [kind |-> "error", err |-> "ValueError"]
        ELSE [kind |-> "errors", depths |-> ds,
              iterations |-> [i \in 1 .. Len(ds) |-> ds[i] + CIDS]
                             \o (IF lim = "None" THEN <<2 * ds[Len(ds)] + CIDS>> ELSE <<>>),
              convergents |-> [i \in 1 .. Len(ds) |-> ds[i] + CIDS],
              reference |-> IF lim = "None" THEN 2 * ds[Len(ds)] + CIDS ELSE -1] :
        ds \in {Sorted({depths[i] : i \in DOMAIN depths})} } : TRUE

\* PCFDynamics.q_reds(depths): depth_to_ind[d] = d - 1 for d in 1..depths[-1],
\* limits = pcf.limit(range(CIDS, depths[-1] + CIDS)), and the reduced
\* denominator of depth d is taken from limits[depth_to_ind[d]]
q_reds(depths) ==
    CHOOSE out \in
      { IF ~check_positive(ds[Len(ds)]) THEN [kind |-> "error", err |-> "ValueError"]
        ELSE IF \E i \in 1 .. Len(ds) : ds[i] \notin 1 .. ds[Len(ds)]
        THEN [kind |-> "error", err |-> "KeyError"]
        ELSE [kind |-> "q_reds", depths |-> ds,
              iterations |-> [j \in 1 .. ds[Len(ds)] |-> CIDS + j - 1],
              convergents |-> [i \in 1 .. Len(ds) |-> CIDS + (ds[i] - 1)]] :
        ds \in {Sorted({depths[i] : i \in DOMAIN depths})} } : TRUE

\* what curve_fit finds for a model with k parameters
curve_fit(k) ==
    {[kind |-> "params", v |-> v] : v \in [1 .. k -> FitValues]}
    \cup {[kind |-> "error", err |-> "RuntimeError"]}

\* tuple([0] + list(params)) of a reduced fit
WithZeroA(reduced) ==
    IF reduced.kind = "error" THEN reduced
    ELSE [kind |-> "params", v |-> <<0>> \o reduced.v]

\* q_reduced_growth_rate whose model selection tests A, not |A|, against the
\* tolerance
q_reduced_growth_rate_signed(depth, fit_NOA, as_in_blind_delta, reduced, full) ==
    IF ~check_positive(depth) \/ q_reds(depths_for_fit(depth)).kind = "error"
    THEN [out |-> [kind |-> "error", err |-> "ValueError"], fits |-> <<>>]
    ELSE IF ~as_in_blind_delta
    THEN IF fit_NOA THEN [out |-> WithZeroA(reduced), fits |-> <<reduced>>]
         ELSE [out |-> full, fits |-> <<full>>]
    ELSE IF full.kind = "error" THEN [out |-> full, fits |-> <<full>>]
    ELSE IF full.v[1] < FACTORIAL_REDUCTION_TOLERANCE
    THEN [out |-> WithZeroA(reduced), fits |-> <<full, reduced>>]
    ELSE [out |-> full, fits |-> <<full>>]

\* PCFDynamics.q_reduced_growth_rate(depth, fit_NOA, as_in_blind_delta), where
\* reduced and full are what curve_fit finds for paramfit_NOA and paramfit:
\* out is what the call returns or raises, fits what the calls of curve_fit
\* gave, in order
q_reduced_growth_rate(depth, fit_NOA, as_in_blind_delta, reduced, full) ==
    IF ~check_positive(depth)
    THEN [out |-> [kind |-> "error", err |-> "ValueError"], fits |-> <<>>]
    ELSE IF q_reds(depths_for_fit(depth)).kind = "error"
    THEN [out |-> q_reds(depths_for_fit(depth)), fits |-> <<>>]
    ELSE IF ~as_in_blind_delta
    THEN IF fit_NOA THEN [out |-> WithZeroA(reduced), fits |-> <<reduced>>]
         ELSE [out |-> full, fits |-> <<full>>]
    ELSE IF full.kind = "error" THEN [out |-> full, fits |-> <<full>>]
    ELSE IF Abs(full.v[1]) < FACTORIAL_REDUCTION_TOLERANCE
    THEN [out |-> WithZeroA(reduced), fits |-> <<full, reduced>>]
    ELSE [out |-> full, fits |-> <<full>>]

\* PCFDynamics.convergence_rate(depth, limit = lim, fit_NOA = fit_NOA)
PCFDynamics_convergence_rate(depth, lim, fit_NOA, reduced, full) ==
    IF ~check_positive(depth) THEN [kind |-> "error", err |-> "ValueError"]
    ELSE IF errors(depths_for_fit(depth), lim).kind = "error"
    THEN errors(depths_for_fit(depth), lim)
    ELSE IF fit_NOA THEN reduced ELSE full

(***************************************************************************)
(* Inputs of the runs.                                                     *)
(***************************************************************************)
\* al*sym + be
Lin(sym, al, be) == Expr(<<1, 1>>, [x \in {Atom(sym, al, be)} |-> 1])

\* the arguments (a, b, variable) handed to the constructor
Inputs ==
    { \* a = 2n + 1, b = n^2
      [a |-> Lin("n", 2, 1), b |-> Mul(Lin("n", 1, 0), Lin("n", 1, 0)), variable |-> "n"],
      \* a = 1/(n + 2), b = 1
      [a |-> Inv(Lin("n", 1, 2)), b |-> One, variable |-> "n"],
      \* a = n, b = n(n - 1): the fraction stops at b(1) = 0
      [a |-> Lin("n", 1, 0), b |-> Mul(Lin("n", 1, 0), Lin("n", 1, -1)), variable |-> "n"],
      \* a = 2(n + 1), b = 4n(n + 1)
      [a |-> Mul(Const(2), Lin("n", 1, 1)),
       b |-> Mul(Const(4), Mul(Lin("n", 1, 0), Lin("n", 1, 1))), variable |-> "n"],
      \* a = x + 1, b = x in the caller's variable x
      [a |-> Lin("x", 1, 1), b |-> Lin("x", 1, 0), variable |-> "x"],
      \* a = 1, b = -n: partial numerators below zero
      [a |-> One, b |-> Mul(Const(-1), Lin("n", 1, 0)), variable |-> "n"],
      \* a = 1/(n + 2), b = (n + 1)/(n + 2): every root below zero
      [a |-> Inv(Lin("n", 1, 2)), b |-> Mul(Lin("n", 1, 1), Inv(Lin("n", 1, 2))),
       variable |-> "n"],
      \* a = 3, b = n - 2: the fraction stops at b(2) = 0 with the value 8/3
      [a |-> Const(3), b |-> Lin("n", 1, -2), variable |-> "n"] }

\* the seeds inflated_by handed to the constructor (One stands for None)
Seeds == {One, Lin("n", 1, 1)}

\* the functions c handed to inflate: 2, 1/2, n + 1
Inflators == {Const(2), Inv(Const(2)), Lin("n", 1, 1)}

\* the shifts s of subs({n: n + s})
Shifts == {1}

\* the depths handed to step and limit
Depths == -1 .. MaxDepth

\* the initial conditions a caller writes down
Inits == {NoInit, ListInit(<<1, 0, 0, 1>>), OtherInit}

\* the depths handed to delta, convergence_rate and compute_dynamics
DynamicsDepths == 0 .. 1

\* the arguments max_iters and depth_shift of compute_dynamics
Iters == 0 .. 2

DepthShifts == {1}

\* the lists of depths handed to errors and q_reds
DepthLists == {<<1>>, <<3>>, <<2, 1>>, <<1, 3, 3>>, <<0, 2>>, <<0>>}

\* the argument limit of errors and of PCFDynamics.convergence_rate: None or
\* a number the caller has
LimitArguments == {"None", "given"}

\* the depths handed to the two fits
FitDepths == {0, 1, 7, 8, 16}

\* the arguments shift_step and max_shift of PCFDynamics.delta
ShiftSteps == {0, 1}

MaxShifts == {0, 2}

\* the argument factor of get_folded_pcf_limit and of fold_pcf
FoldFactors == {1, 2}

\* the depths at which the limit handed to get_folded_pcf_limit is computed
RoundTripDepths == {2, 3}

\* the argument limit of get_folded_pcf_limit: a number, a string, or the limit
\* of pcf at one of the depths
FoldLimits(pcf) ==
    {[k |-> "num", v |-> <<0, 1>>], [k |-> "str"]}
    \cup {limit(pcf, d, NoInit).result :
            d \in {e \in RoundTripDepths : limit(pcf, e, NoInit).kind = "limit"}}

\* the entries p1, p2, q1, q2 of the matrices handed to precision directly
PrecisionEntries == {-10, -5, -1, 0, 1, 3, 5, 10}

\* the settings a caller gives mm.mp.dps
Ambients == {15, 20}

\* the bases handed to precision
Bases == {10}

(***************************************************************************)
(* State: heap is the sequence of PCF objects created so far, made[i] is   *)
(* the call that created heap[i], ret is what the last call returned.      *)
(***************************************************************************)
VARIABLES heap, made, ret

vars == <<heap, made, ret, dps>>

Init ==
    /\ heap = <<>>
    /\ made = <<>>
    /\ ret = [op |-> "none"]
    /\ dps = DefaultDps

\* the object the next call is made on: the one returned last
cur == Len(heap)

\* a run first builds its objects and then evaluates the last one
Building ==
    ret.op \notin {"step", "limit", "delta", "convergence_rate", "compute_dynamics",
                  "precision", "shift_to_viable", "PCFDynamics.delta",
                  "get_folded_pcf_limit", "inflate_to_polynomial", "errors", "q_reds",
                  "q_reduced_growth_rate", "PCFDynamics.convergence_rate"}

Create(obj, how) ==
    /\ Building
    /\ Len(heap) < MaxObjs
    /\ heap' = Append(heap, obj)
    /\ made' = Append(made, how)
    /\ ret' = [op |-> how.op, obj |-> Len(heap) + 1]
    /\ UNCHANGED dps

\* mm.mp.dps = d, written by the caller before the run evaluates
SetDps(d) ==
    /\ Building /\ d # dps
    /\ dps' = d
    /\ UNCHANGED <<heap, made, ret>>

\* p = PCF(a, b, variable, inflated_by)
New(inp, seed) ==
    /\ heap = <<>>
    /\ Create(PCF(inp.a, inp.b, inp.variable, seed),
              [op |-> "PCF", a |-> inp.a, b |-> inp.b, variable |-> inp.variable,
               seed |-> seed])

\* heap[i].subs({n: n + s})
Subs(i, s) ==
    /\ i \in DOMAIN heap
    /\ Create(subs(heap[i], s), [op |-> "subs", recv |-> i, s |-> s])

\* heap[i].inflate(c)
Inflate(i, c) ==
    /\ i \in DOMAIN heap
    /\ Create(inflate(heap[i], c), [op |-> "inflate", recv |-> i, c |-> c])

\* heap[i].deflate_all()
DeflateAll(i) ==
    /\ i \in DOMAIN heap
    /\ Create(deflate_all(heap[i]), [op |-> "deflate_all", recv |-> i])

\* canonical writing inflated_by = 1 into the receiver as well
Canonical_resets_receiver(i, keep) ==
    /\ i \in DOMAIN heap
    /\ Building
    /\ Len(heap) < MaxObjs
    /\ heap' = Append(IF keep THEN heap ELSE [heap EXCEPT ![i].inflated_by = One],
                      canonical(heap[i], keep))
    /\ made' = Append(made, [op |-> "canonical", recv |-> i, keep |-> keep])
    /\ ret' = [op |-> "canonical", obj |-> Len(heap) + 1]
    /\ UNCHANGED dps

\* heap[i].canonical(keep_inflated_by = keep)
Canonical(i, keep) ==
    /\ i \in DOMAIN heap
    /\ Create(canonical(heap[i], keep), [op |-> "canonical", recv |-> i, keep |-> keep])

\* heap[i].simplify()
Simplify(i) ==
    /\ i \in DOMAIN heap
    /\ Create(simplify(heap[i]), [op |-> "simplify", recv |-> i])

\* heap[i].step(depth, initial_conditions); from is the number of recurrence
\* matrices already in initial_conditions
Step(i, depth, init) ==
    /\ Building /\ i \in DOMAIN heap
    /\ \E out \in {step(heap[i], depth, init, 0)} :
        /\ out.kind # "out_of_range"
        /\ ret' = [op |-> "step", recv |-> i, depth |-> depth, init |-> init,
                   from |-> 0, out |-> out]
    /\ UNCHANGED <<heap, made, dps>>

\* heap[i].step(depth, initial_conditions = m0) with the matrix m0 the last step
\* on heap[i] returned
StepResume(i, depth) ==
    /\ ret.op = "step" /\ ret.recv = i /\ ret.out.kind = "matrix"
    /\ ret.init.type # "list"
    /\ ret.from + ret.depth + depth <= MaxDepth
    /\ \E init \in {MatrixInit(ret.out.mat)} :
         \E out \in {step(heap[i], depth, init, 0)} :
           /\ out.kind # "out_of_range"
           /\ ret' = [op |-> "step", recv |-> i, depth |-> depth, init |-> init,
                      from |-> ret.from + ret.depth, out |-> out]
    /\ UNCHANGED <<heap, made, dps>>

\* heap[i].limit(depth, initial_conditions, return_sympy_rational = True)
Limit(i, depth, init) ==
    /\ Building /\ i \in DOMAIN heap
    /\ \E out \in {limit(heap[i], depth, init)} :
        /\ out.kind # "out_of_range"
        /\ ret' = [op |-> "limit", recv |-> i, depth |-> depth, init |-> init,
                   out |-> out]
    /\ UNCHANGED <<heap, made, dps>>

\* heap[i].delta(depth)
Delta(i, depth) ==
    /\ Building /\ i \in DOMAIN heap
    /\ \E out \in {delta(heap[i], depth)} :
        /\ out.kind # "out_of_range"
        /\ ret' = [op |-> "delta", recv |-> i, depth |-> depth, out |-> out]
    /\ UNCHANGED <<heap, made, dps>>

\* heap[i].convergence_rate(depth)
ConvergenceRate(i, depth) ==
    /\ Building /\ i \in DOMAIN heap
    /\ \E out \in {convergence_rate(heap[i], depth)} :
        /\ out.kind # "out_of_range"
        /\ ret' = [op |-> "convergence_rate", recv |-> i, depth |-> depth, out |-> out]
    /\ UNCHANGED <<heap, made, dps>>

\* heap[i].compute_dynamics(depth, max_iters, depth_shift)
ComputeDynamics(i, depth, max_iters, depth_shift) ==
    /\ Building /\ i \in DOMAIN heap
    /\ \E out \in {compute_dynamics(heap[i], depth, max_iters, depth_shift)} :
        /\ out.delta.kind # "out_of_range" /\ out.convrate.kind # "out_of_range"
        /\ ret' = [op |-> "compute_dynamics", recv |-> i, depth |-> depth,
                   max_iters |-> max_iters, depth_shift |-> depth_shift, out |-> out]
    /\ UNCHANGED <<heap, made, dps>>

\* PCFDynamics(heap[i]).delta(depth, shift_step = shift_step, max_shift =
\* max_shift) up to its loop: check_positive, result = +inf, shift = 0.  The
\* wrapped PCF is one the caller has just constructed; out holds result, and
\* results the values the attempts gave, in order
PCFDynamics_delta(i, depth, shift_step, max_shift) ==
    /\ Building /\ i \in DOMAIN heap /\ Len(heap) = 1
    /\ ret' = [op |-> "PCFDynamics.delta", recv |-> i, depth |-> depth,
               shift_step |-> shift_step, max_shift |-> max_shift, shift |-> 0,
               results |-> <<>>,
               pc |-> IF depth < 1 THEN "raised" ELSE "while",
               out |-> IF depth < 1 THEN [kind |-> "error", err |-> "ValueError"]
                       ELSE [kind |-> "inf"]]
    /\ UNCHANGED <<heap, made, dps>>

\* one test of "while result == +inf" and, when it holds, one pass of the body
PCFDynamics_delta_while ==
    /\ ret.op = "PCFDynamics.delta" /\ ret.pc = "while"
    /\ IF ret.out.kind # "inf" \/ ret.shift > ret.max_shift
       THEN ret' = [ret EXCEPT !.pc = "returned"]
       ELSE /\ Len(ret.results) < MaxAttempts
            /\ \E d \in {delta(subs(heap[ret.recv], ret.shift), ret.depth + CIDS)} :
                /\ d.kind # "out_of_range"
                /\ ret' = [ret EXCEPT !.out = d, !.shift = @ + ret.shift_step,
                                      !.results = Append(@, d),
                                      !.pc = IF d.kind = "error" THEN "raised" ELSE "while"]
    /\ UNCHANGED <<heap, made, dps>>

\* get_folded_pcf_limit(pcf, factor, z, deflate_all = deflate) on the object of
\* class cls with the a and b of the PCF just constructed
GetFoldedPcfLimit(i, cls, factor, deflate) ==
    /\ Building /\ i \in DOMAIN heap /\ Len(heap) = 1
    /\ InFoldRange(AsClass(cls, heap[i]), factor, deflate)
    /\ \E z \in FoldLimits(heap[i]) :
          ret' = [op |-> "get_folded_pcf_limit", recv |-> i, pcf |-> AsClass(cls, heap[i]),
                  factor |-> factor, limit |-> z, deflate_all |-> deflate,
                  out |-> get_folded_pcf_limit(AsClass(cls, heap[i]), factor, z, deflate)]
    /\ UNCHANGED <<heap, made, dps>>

\* inflate_to_polynomial(heap[i], defalte_all = deflate)
InflateToPolynomial(i, deflate) ==
    /\ Building /\ i \in DOMAIN heap
    /\ ret' = [op |-> "inflate_to_polynomial", recv |-> i, deflate_all |-> deflate,
               out |-> inflate_to_polynomial(heap[i], deflate)]
    /\ UNCHANGED <<heap, made, dps>>

\* PCFDynamics(heap[i]).errors(depths, limit = lim)
Errors(i, depths, lim) ==
    /\ Building /\ i \in DOMAIN heap /\ Len(heap) = 1
    /\ ret' = [op |-> "errors", recv |-> i, depths |-> depths, limit |-> lim,
               out |-> errors(depths, lim)]
    /\ UNCHANGED <<heap, made, dps>>

\* PCFDynamics(heap[i]).q_reds(depths)
QReds(i, depths) ==
    /\ Building /\ i \in DOMAIN heap /\ Len(heap) = 1
    /\ ret' = [op |-> "q_reds", recv |-> i, depths |-> depths, out |-> q_reds(depths)]
    /\ UNCHANGED <<heap, made, dps>>

\* PCFDynamics(heap[i]).q_reduced_growth_rate(depth, fit_NOA = fit_NOA,
\* as_in_blind_delta = as_in_blind_delta)
QReducedGrowthRate(i, depth, fit_NOA, as_in_blind_delta) ==
    /\ Building /\ i \in DOMAIN heap /\ Len(heap) = 1
    /\ \E reduced \in curve_fit(2), full \in curve_fit(3) :
          \E r \in {q_reduced_growth_rate(depth, fit_NOA, as_in_blind_delta, reduced, full)} :
              ret' = [op |-> "q_reduced_growth_rate", recv |-> i, depth |-> depth,
                      fit_NOA |-> fit_NOA, as_in_blind_delta |-> as_in_blind_delta,
                      fits |-> r.fits, out |-> r.out]
    /\ UNCHANGED <<heap, made, dps>>

\* PCFDynamics(heap[i]).convergence_rate(depth, limit = lim, fit_NOA = fit_NOA)
DynamicsConvergenceRate(i, depth, lim, fit_NOA) ==
    /\ Building /\ i \in DOMAIN heap /\ Len(heap) = 1
    /\ \E reduced \in curve_fit(2), full \in curve_fit(3) :
          ret' = [op |-> "PCFDynamics.convergence_rate", recv |-> i, depth |-> depth,
                  limit |-> lim, fit_NOA |-> fit_NOA,
                  out |-> PCFDynamics_convergence_rate(depth, lim, fit_NOA, reduced, full)]
    /\ UNCHANGED <<heap, made, dps>>

\* shift_to_viable(heap[i])
ShiftToViable(i) ==
    /\ Building /\ i \in DOMAIN heap
    /\ ret' = [op |-> "shift_to_viable", recv |-> i, out |-> shift_to_viable(heap[i])]
    /\ UNCHANGED <<heap, made, dps>>

\* precision(matrix, base) called on a matrix the caller writes down
Precision(matrix, base) ==
    /\ ret.op = "none"
    /\ ret' = [op |-> "precision", matrix |-> matrix, base |-> base,
               out |-> precision(matrix, base)]
    /\ UNCHANGED <<heap, made, dps>>

Next ==
    \/ \E d \in Ambients : SetDps(d)
    \/ \E inp \in Inputs, seed \in Seeds : New(inp, seed)
    \/ \E s \in Shifts : Subs(cur, s)
    \/ \E c \in Inflators : Inflate(cur, c)
    \/ DeflateAll(cur)
    \/ \E keep \in BOOLEAN : Canonical(cur, keep)
    \/ Simplify(cur)
    \/ \E depth \in Depths, init \in Inits : Step(cur, depth, init)
    \/ \E depth \in 1 .. MaxDepth : StepResume(cur, depth)
    \/ \E depth \in Depths, init \in Inits : Limit(cur, depth, init)
    \/ \E depth \in DynamicsDepths : Delta(cur, depth)
    \/ \E depth \in DynamicsDepths : ConvergenceRate(cur, depth)
    \/ \E depth \in DynamicsDepths, max_iters \in Iters, depth_shift \in DepthShifts :
          ComputeDynamics(cur, depth, max_iters, depth_shift)
    \/ \E depth \in DynamicsDepths, shift_step \in ShiftSteps, max_shift \in MaxShifts :
          PCFDynamics_delta(cur, depth, shift_step, max_shift)
    \/ PCFDynamics_delta_while
    \/ \E cls \in Classes, factor \in FoldFactors, deflate \in BOOLEAN :
          GetFoldedPcfLimit(cur, cls, factor, deflate)
    \/ \E deflate \in BOOLEAN : InflateToPolynomial(cur, deflate)
    \/ \E depths \in DepthLists, lim \in LimitArguments : Errors(cur, depths, lim)
    \/ \E depths \in DepthLists : QReds(cur, depths)
    \/ \E depth \in FitDepths, fit_NOA \in BOOLEAN, as_in_blind_delta \in BOOLEAN :
          QReducedGrowthRate(cur, depth, fit_NOA, as_in_blind_delta)
    \/ \E depth \in FitDepths, lim \in LimitArguments, fit_NOA \in BOOLEAN :
          DynamicsConvergenceRate(cur, depth, lim, fit_NOA)
    \/ ShiftToViable(cur)
    \/ \E p1 \in PrecisionEntries, p2 \in PrecisionEntries, q1 \in PrecisionEntries,
          q2 \in PrecisionEntries, base \in Bases : Precision(<<p1, p2, q1, q2>>, base)

Spec == Init /\ [][Next]_vars

(***************************************************************************)
(* Step matrices: checkpoints, the ordered product, degenerate depths.     *)
(***************************************************************************)
\* the object the last evaluation was made on
Recv == heap[ret.recv]

\* the last call was step(depth) with the default initial conditions and gave a matrix
DirectStep ==
    ret.op = "step" /\ ret.init.type = "None" /\ ret.out.kind = "matrix"

\* the last call was step(depth, initial_conditions = step(d0)) for d0 = ret.from >= 1
ResumedStep ==
    /\ ret.op = "step" /\ ret.init.type = "Matrix" /\ ret.out.kind = "matrix"
    /\ ret.from >= 1 /\ ret.depth >= 1
    /\ step(Recv, ret.from, NoInit, 0).kind = "matrix"
    /\ ret.init.mat = step(Recv, ret.from, NoInit, 0).mat
    /\ step(Recv, ret.from + ret.depth, NoInit, 0).kind = "matrix"

\* C1: checkpoint resumption.  step(d1 - d0, initial_conditions = step(d0)) is,
\* entry for entry, the matrix step(d1) computed directly, for 1 <= d0 < d1.
C1_CheckpointResumption ==
    ResumedStep => ret.out.mat = step(Recv, ret.from + ret.depth, NoInit, 0).mat

RECURSIVE SuffixProduct(_, _, _, _, _)
\* M(from) * (M(from + 1) * (... * M(to))), associated to the right
SuffixProduct(a_c, b_c, from, to, m) ==
    IF from > to THEN <<1, 0, 0, 1>>
    ELSE MatMul(RecurrenceAt(a_c, b_c, from, m), SuffixProduct(a_c, b_c, from + 1, to, m), m)

\* [[1, a_compute(0)], [0, 1]] * M(1) * ... * M(depth)
OrderedProduct(self, depth, m) ==
    MatMul(<<1, PolyAt(self.a_compute, 0, m), 0, 1>>,
           SuffixProduct(self.a_compute, self.b_compute, 1, depth, m), m)

\* the PCF a(n) = 2n + 1, b(n) = n^2
IsOddSquares(self) ==
    /\ self.a = Lin("n", 2, 1)
    /\ self.b = Mul(Lin("n", 1, 0), Lin("n", 1, 0))
    /\ self.a_compute = self.a /\ self.b_compute = self.b

\* pairwise coprime moduli whose product exceeds every entry of the depth-10 matrix
Moduli == {46309, 46327, 46337}

\* (hi * 10^5 + lo) modulo m
Residue(hi, lo, m) == ((hi % m) * (100000 % m) + lo) % m

\* [[3958113600, 100370793600], [3108695040, 78831037440]] modulo m
Depth10(m) ==
    <<Residue(39581, 13600, m), Residue(1003707, 93600, m),
      Residue(31086, 95040, m), Residue(788310, 37440, m)>>

\* C2: step(depth) with the default initial conditions is the ordered product
\* [[1, a_compute(0)], [0, 1]] * M(1) * ... * M(depth); for a = 2n + 1, b = n^2 it
\* is [[1,4],[1,3]], [[4,24],[3,19]], [[24,204],[19,160]] at depths 1, 2, 3 and
\* [[3958113600, 100370793600], [3108695040, 78831037440]] at depth 10.
C2_StepIsOrderedProduct ==
    /\ DirectStep => ret.out.mat = OrderedProduct(Recv, ret.depth, 0)
    /\ (DirectStep /\ IsOddSquares(Recv)) =>
          /\ ret.depth = 1 => ret.out.mat = <<1, 4, 1, 3>>
          /\ ret.depth = 2 => ret.out.mat = <<4, 24, 3, 19>>
          /\ ret.depth = 3 => ret.out.mat = <<24, 204, 19, 160>>
          /\ \A m \in Moduli : step(Recv, 10, NoInit, m).mat = Depth10(m)

C2_Witness ==
    DirectStep /\ IsOddSquares(Recv) /\ ret.depth = 3

\* C3: step fails with an error, and returns no matrix, for every depth < 1,
\* whatever the initial conditions.
C3_DepthBelowOneFails ==
    (ret.op = "step" /\ ret.depth < 1) => ret.out.kind = "error"

C3_Witness ==
    /\ ret.op = "step" /\ ret.depth = 0 /\ ret.init.type = "list"
    /\ ret.out = [kind |-> "error", err |-> "ValueError"]

(***************************************************************************)
(* Inflation.                                                              *)
(***************************************************************************)
\* heap[i] was returned by heap[made[i].recv].inflate(made[i].c)
IsInflated(i) == made[i].op = "inflate"

Parent(i) == heap[made[i].recv]

\* e is a number other than 0 at every index 0 .. depth
NonzeroUpTo(e, depth) ==
    \A k \in 0 .. depth : Eval(e, k).kind = "num" /\ Eval(e, k).v[1] # 0

\* the last call was limit(depth) on an inflated object, default initial conditions,
\* with c nonzero at the visited indices and the limit of the original defined
InflatedLimit ==
    /\ ret.op = "limit" /\ ret.init.type = "None" /\ ret.depth >= 1
    /\ IsInflated(ret.recv)
    /\ NonzeroUpTo(made[ret.recv].c, ret.depth)
    /\ limit(Parent(ret.recv), ret.depth, NoInit).kind = "limit"

\* C4: inflation invariance.  p.inflate(c).limit(depth) returns the value
\* p.limit(depth) returns, for polynomial and for rational a, b.
C4_InflationInvariance ==
    InflatedLimit =>
        /\ ret.out.kind = "limit"
        /\ ret.out.result = limit(Parent(ret.recv), ret.depth, NoInit).result

\* C5 as stated: inflate(c) returns a' = a*c, b' = b*c(n)*c(n-1) and
\* inflated_by' = inflated_by * c, no other factor entering.
C5_InflatedByTimesC ==
    \A i \in DOMAIN heap : IsInflated(i) =>
        /\ heap[i].a = Mul(Parent(i).a, made[i].c)
        /\ heap[i].b = Mul(Mul(Parent(i).b, made[i].c), SubsShift(made[i].c, -1))
        /\ heap[i].inflated_by = Mul(Parent(i).inflated_by, made[i].c)

\* the LCM of the denominators of a and b
DenominatorLcm(a, b) == LcmExpr(Denom(a), Denom(b))

\* C5, amended: inflate(c) returns a' = a*c, b' = b*c(n)*c(n-1) and
\* inflated_by' = inflated_by * c * L', L' the LCM of the denominators of a' and
\* b'; after two inflations the result carries the starting inflated_by times
\* c1*c2 times the two LCMs.
C5_InflatedByTimesCAndLcm ==
    \A i \in DOMAIN heap : IsInflated(i) =>
        /\ heap[i].a = Mul(Parent(i).a, made[i].c)
        /\ heap[i].b = Mul(Mul(Parent(i).b, made[i].c), SubsShift(made[i].c, -1))
        /\ heap[i].inflated_by =
              Mul(Mul(Parent(i).inflated_by, made[i].c), DenominatorLcm(heap[i].a, heap[i].b))
        /\ IsInflated(made[i].recv) =>
              heap[i].inflated_by =
                 Mul(Mul(Parent(made[i].recv).inflated_by,
                         Mul(made[made[i].recv].c, made[i].c)),
                     Mul(DenominatorLcm(Parent(i).a, Parent(i).b),
                         DenominatorLcm(heap[i].a, heap[i].b)))

\* two inflations in a row, the second leaving denominators to clear
C5_Witness ==
    \E i \in DOMAIN heap :
        /\ IsInflated(i) /\ IsInflated(made[i].recv)
        /\ DenominatorLcm(heap[i].a, heap[i].b) # One

\* entry [0][1] over entry [1][1] of a step matrix
RawRatio(mat) ==
    IF mat[4] = 0 THEN [k |-> "undefined"] ELSE [k |-> "num", v |-> Rat(mat[2], mat[4])]

Scaled(ratio, r) ==
    IF ratio.k = "num" THEN [k |-> "num", v |-> RatMul(ratio.v, r)] ELSE ratio

\* the last call was step(depth), default initial conditions, on an inflated object
\* with c nonzero at 0 .. depth, the step matrix of the original being defined
InflatedStep ==
    /\ DirectStep /\ ret.depth >= 1
    /\ IsInflated(ret.recv)
    /\ NonzeroUpTo(made[ret.recv].c, ret.depth)
    /\ step(Parent(ret.recv), ret.depth, NoInit, 0).kind = "matrix"

\* C6 as stated: the raw convergent ratio of p.inflate(c) at depth is c(0) times
\* the raw convergent ratio of p at depth.
C6_RawRatioTimesC0 ==
    InflatedStep =>
        RawRatio(ret.out.mat) =
            Scaled(RawRatio(step(Parent(ret.recv), ret.depth, NoInit, 0).mat),
                   Eval(made[ret.recv].c, 0).v)

\* C6, amended: with L and L' the denominator LCMs of p and of p.inflate(c), both
\* nonzero at 0 .. depth, the raw convergent ratio of p.inflate(c) is
\* c(0) * L'(0) / L(0) times the raw convergent ratio of p.
C6_RawRatioTimesC0AndLcms ==
    LET L0 == Parent(ret.recv).inflate_to_integer_polynomials
        L1 == Recv.inflate_to_integer_polynomials
    IN  (InflatedStep /\ NonzeroUpTo(L0, ret.depth) /\ NonzeroUpTo(L1, ret.depth)) =>
            RawRatio(ret.out.mat) =
                Scaled(RawRatio(step(Parent(ret.recv), ret.depth, NoInit, 0).mat),
                       RatMul(Eval(made[ret.recv].c, 0).v,
                              RatMul(Eval(L1, 0).v, RatInv(Eval(L0, 0).v))))

\* a rational original inflated by 1/2, stepped to depth 2
C6_Witness ==
    /\ InflatedStep /\ ret.depth = 2
    /\ made[ret.recv].c = Inv(Const(2))
    /\ Parent(ret.recv).inflate_to_integer_polynomials # One
    /\ RawRatio(ret.out.mat).k = "num"

(***************************************************************************)
(* Deflation and the canonical form.                                       *)
(***************************************************************************)
IsDeflated(i) == made[i].op = "deflate_all"

\* C7: deflation idempotence.  p.deflate_all().deflate_all() has the a, b and
\* inflated_by of p.deflate_all().
C7_DeflationIdempotent ==
    \A i \in DOMAIN heap : (IsDeflated(i) /\ IsDeflated(made[i].recv)) =>
        /\ heap[i].a = Parent(i).a
        /\ heap[i].b = Parent(i).b
        /\ heap[i].inflated_by = Parent(i).inflated_by

IsCanonical(i) == made[i].op = "canonical"

\* the last call was limit(depth), default initial conditions, on the object
\* canonical(keep) returned, the limit of the original being defined
CanonicalLimit(keep) ==
    /\ ret.op = "limit" /\ ret.init.type = "None" /\ ret.depth >= 1
    /\ IsCanonical(ret.recv) /\ made[ret.recv].keep = keep
    /\ limit(Parent(ret.recv), ret.depth, NoInit).kind = "limit"

\* what canonical has just returned: integer polynomials a, b with nothing left to
\* deflate; with keep_inflated_by = False the same a and b and inflated_by = 1
CanonicalShape ==
    (ret.op = "canonical") =>
        LET i == ret.obj
            kept == canonical(Parent(i), TRUE)
        IN  /\ IsPolynomial(heap[i].a) /\ IsPolynomial(heap[i].b)
            /\ content(Numer(heap[i].a), Numer(heap[i].b)) = One
            /\ heap[i].a = kept.a
            /\ heap[i].b = kept.b
            /\ ~made[i].keep => heap[i].inflated_by = One

\* with keep_inflated_by = False limit is the raw ratio of the object's own step
CanonicalRawLimit ==
    (CanonicalLimit(FALSE) /\ ret.out.kind = "limit" /\ ret.out.result.k = "num") =>
        [k |-> "num", v |-> ret.out.result.v]
            = RawRatio(step(Recv, ret.depth, NoInit, 0).mat)

CanonicalRescale(self) ==
    Mul(canonical(self, TRUE).inflated_by, Inv(self.inflated_by))

IsConstructed(i) == made[i].op = "PCF"

\* C9: constructor invariant.  For the arguments a, b, variable and seed, with L
\* the LCM of the denominators of the simplified a and b in the index n, the
\* object has a_compute = a*L and b_compute = b*L(n)*L(n-1), polynomials in n,
\* and inflated_by = seed*L.
C9_ConstructorInvariant ==
    \A i \in DOMAIN heap : IsConstructed(i) =>
        LET a == SubsSym(made[i].a, made[i].variable, "n")
            b == SubsSym(made[i].b, made[i].variable, "n")
            L == DenominatorLcm(a, b)
        IN  /\ heap[i].a_compute = Mul(a, L)
            /\ heap[i].b_compute = Mul(Mul(b, L), SubsShift(L, -1))
            /\ IsPolynomial(heap[i].a_compute) /\ IsPolynomial(heap[i].b_compute)
            /\ FreeSymbols(heap[i].a_compute) \cup FreeSymbols(heap[i].b_compute)
                  \subseteq {"n"}
            /\ heap[i].inflated_by = Mul(made[i].seed, L)

Transforms == {"subs", "inflate", "deflate_all", "canonical", "simplify"}

Evaluations == {"step", "limit", "delta", "convergence_rate", "compute_dynamics"}

\* the fields of a PCF the callers read
Fields(pcf) ==
    [a |-> pcf.a, b |-> pcf.b, inflated_by |-> pcf.inflated_by,
     a_compute |-> pcf.a_compute, b_compute |-> pcf.b_compute]

\* C10: immutability.  Every transform and every evaluation leaves a, b,
\* inflated_by, a_compute and b_compute of every existing PCF (the receiver
\* included) unchanged; a transform returns a new PCF, distinct from all of them.
C10_Immutability ==
    [][ /\ \A i \in DOMAIN heap :
              i \in DOMAIN heap' /\ Fields(heap'[i]) = Fields(heap[i])
        /\ ret'.op \in Transforms =>
              /\ ret'.obj \notin DOMAIN heap /\ ret'.obj \in DOMAIN heap'
              /\ made'[ret'.obj].recv \in DOMAIN heap
        /\ ret'.op \in Evaluations => DOMAIN heap' = DOMAIN heap ]_<<heap, made, ret>>

\* canonical(keep_inflated_by = False) was called on a PCF whose inflated_by is
\* not 1, and compute_dynamics was then run on the result
C10_Witness ==
    /\ ret.op = "compute_dynamics" /\ ret.out.delta.kind = "value"
    /\ IsCanonical(ret.recv) /\ ~made[ret.recv].keep
    /\ Parent(ret.recv).inflated_by # One

(***************************************************************************)
(* precision: the digits a step matrix agrees to.                          *)
(***************************************************************************)
\* C11: precision returns 0 whenever q1*q2 = 0, 100 whenever q1*q2 # 0 and
\* p2*q1 - q2*p1 = 0, and otherwise the floor of
\* -log_base(|p2*q1 - q2*p1| / |q1*q2|), for entries of either sign
C11_PrecisionIsFloorOfLog ==
    (ret.op = "precision") =>
        LET numerator == ret.matrix[2] * ret.matrix[3] - ret.matrix[4] * ret.matrix[1]
            denominator == ret.matrix[3] * ret.matrix[4]
        IN  ret.out = IF denominator = 0 THEN 0
                      ELSE IF numerator = 0 THEN 100
                      ELSE FloorOfDigits(Abs(numerator), Abs(denominator), ret.base)

\* the step matrix one depth past the one the last call returned
NextStep == step(Recv, ret.depth + 1, NoInit, 0)

\* the last call was step(depth) with the default initial conditions, and
\* step(depth) and step(depth + 1) both have q1*q2 # 0
BothDenominatorsNonzero ==
    /\ ret.op = "step" /\ ret.init = NoInit /\ ret.from = 0
    /\ ret.out.kind = "matrix" /\ NextStep.kind = "matrix"
    /\ ret.out.mat[3] * ret.out.mat[4] # 0
    /\ NextStep.mat[3] * NextStep.mat[4] # 0

\* C12: precision(step(depth + 1)) >= precision(step(depth)) at every depth
\* where both step matrices have q1*q2 # 0
C12_PrecisionMonotone ==
    BothDenominatorsNonzero => precision(NextStep.mat, 10) >= precision(ret.out.mat, 10)

\* a(k) >= 1 and b(k) >= 1 at every index the two step matrices multiply in
PositiveTerms ==
    \A k \in 1 .. ret.depth + 1 :
        PolyAt(Recv.a_compute, k, 0) >= 1 /\ PolyAt(Recv.b_compute, k, 0) >= 1

\* C12 (amended): precision(step(depth + 1)) >= precision(step(depth)) where
\* both step matrices have q1*q2 # 0 and a(k), b(k) are positive at k >= 1
C12_PrecisionMonotoneForPositiveTerms ==
    (BothDenominatorsNonzero /\ PositiveTerms) =>
        precision(NextStep.mat, 10) >= precision(ret.out.mat, 10)

\* step(1) and step(2) of a fraction with positive terms, the second one
\* agreeing to more digits than the first
C12_Witness ==
    /\ BothDenominatorsNonzero /\ PositiveTerms
    /\ precision(NextStep.mat, 10) > precision(ret.out.mat, 10)

(***************************************************************************)
(* The shift to a viable PCF.                                              *)
(***************************************************************************)
\* an integer root of a's denominator, b's denominator or b's numerator at
\* an index >= from
HasRootFrom(pcf, from) ==
    \E z \in get_zeros(pcf).a_den \cup get_zeros(pcf).b_den \cup get_zeros(pcf).b_num :
        z >= from

\* C13: the PCF returned by shift_to_viable has no integer root of a's
\* denominator, b's denominator or b's numerator at a non-negative index, and
\* the shift is 0 for a PCF that has no such root already
C13_ViabilityShift ==
    (ret.op = "shift_to_viable") =>
        /\ ~HasRootFrom(ret.out.pcf, 0)
        /\ ~HasRootFrom(Recv, 0) => ret.out.shift = 0

\* C14: the shift is a nonnegative integer, and the smallest one for which the
\* shifted PCF has no integer root of a's denominator, b's denominator or b's
\* numerator at a non-negative index
C14_SmallestNonnegativeShift ==
    (ret.op = "shift_to_viable") =>
        /\ ret.out.shift >= 0
        /\ ~HasRootFrom(subs(Recv, ret.out.shift), 0)
        /\ \A s \in 0 .. ret.out.shift - 1 : HasRootFrom(subs(Recv, s), 0)

(***************************************************************************)
(* Dynamical metrics: the undefined delta, failures, retries.              *)
(***************************************************************************)
\* the convergent p/q of the step matrix has reduced denominator q/gcd(p, q) = 1
ReducedDenominatorIsOne(step_mat) ==
    /\ step_mat.kind = "matrix"
    /\ step_mat.mat[4] # 0
    /\ step_mat.mat[4] \div Gcd(step_mat.mat[2], step_mat.mat[4]) = 1

\* the last call was PCF.delta(depth) or PCFDynamics.delta
IsDelta == ret.op = "delta"

IsDynamicsDelta == ret.op = "PCFDynamics.delta"

\* no attempt of PCFDynamics.delta follows one that gave None, and None is
\* what the call returns then
NonePassedOn ==
    /\ \A k \in 1 .. Len(ret.results) - 1 : ret.results[k].kind # "None"
    /\ (ret.results # <<>> /\ ret.results[Len(ret.results)].kind = "None") =>
           ret.out.kind = "None" /\ ret.pc \in {"while", "returned"}

LimitCorrectionDefined(self) == Eval(Mul(self.inflated_by, NPlusOne), 0).kind = "num"

SetMin(S) == CHOOSE x \in S : \A y \in S : x <= y

\* the depth of pass k of a loop of the last compute_dynamics call
PassDepth(k) == ret.depth + k * ret.depth_shift

\* the passes at which delta returns a finite number
DeltaSuccesses ==
    {k \in 0 .. ret.max_iters - 1 : delta(Recv, PassDepth(k)).kind = "value"}

\* the passes at which convergence_rate returns
ConvrateSuccesses ==
    {k \in 0 .. ret.max_iters - 1 :
        convergence_rate(Recv, PassDepth(k)).kind \in {"value", "inf"}}

\* C18: compute_dynamics never raises, whatever delta and convergence_rate do:
\* it returns the pair (delta, convergence_rate), each the result of the first
\* attempt of its own that succeeded, +inf and 0 when none did
C18_ComputeDynamicsNeverRaises ==
    (ret.op = "compute_dynamics") =>
        /\ ret.out.kind = "dynamics"
        /\ ret.out.delta = IF DeltaSuccesses = {} THEN [kind |-> "inf"]
                           ELSE delta(Recv, PassDepth(SetMin(DeltaSuccesses)))
        /\ ret.out.convrate =
               IF ConvrateSuccesses = {} THEN [kind |-> "zero"]
               ELSE convergence_rate(Recv, PassDepth(SetMin(ConvrateSuccesses)))

\* every attempt at delta failed (None or an error), the first attempt at
\* convergence_rate gave a number, and the pair (+inf, that number) came back
C18_Witness ==
    /\ ret.op = "compute_dynamics" /\ ret.max_iters >= 1
    /\ \A k \in 0 .. ret.max_iters - 1 :
           delta(Recv, PassDepth(k)).kind \in {"None", "error"}
    /\ ret.out.delta.kind = "inf"
    /\ ret.out.convrate.kind = "value"

RECURSIVE DeltaPasses(_, _, _, _, _, _)
\* the number of passes the first loop of compute_dynamics makes from its
\* i-th pass on, delta being the value held so far
DeltaPasses(self, depth, i, max_iters, depth_shift, dlt) ==
    IF ~(i < max_iters) \/ dlt.kind # "inf" THEN 0
    ELSE CHOOSE r \in { 1 + DeltaPasses(self, depth + depth_shift, i + 1, max_iters,
                                        depth_shift, IF d.kind = "value" THEN d ELSE dlt) :
                        d \in {delta(self, depth)} } : TRUE

RECURSIVE ConvratePasses(_, _, _, _, _)
\* the number of passes the second loop of compute_dynamics makes
ConvratePasses(self, depth, i, max_iters, depth_shift) ==
    IF ~(i < max_iters) THEN 0
    ELSE IF convergence_rate(self, depth).kind \in {"value", "inf"} THEN 1
    ELSE 1 + ConvratePasses(self, depth + depth_shift, i + 1, max_iters, depth_shift)

\* the most attempts the caps of PCFDynamics.delta allow: shift = 0, 1, ...,
\* max_shift
AttemptsCap == IF ret.max_shift < 0 THEN 0 ELSE ret.max_shift + 1

C20_DegenerateDepthRejected ==
    /\ (IsDynamicsDelta /\ ret.depth < 1) =>
           ret.pc = "raised" /\ ret.out.kind = "error" /\ ret.results = <<>>
    /\ (ret.op = "compute_dynamics" /\ ret.depth < 1) =>
           /\ ret.out.kind = "error"
           /\ DeltaPasses(Recv, ret.depth, 0, ret.max_iters, ret.depth_shift,
                          [kind |-> "inf"]) = 0

(***************************************************************************)
(* Folding: the transport of a limit.                                      *)
(***************************************************************************)
\* C15: get_folded_pcf_limit raises SingularCoboundaryMatrixError exactly when
\* det U(1) = 0, whatever the limit handed in, and returns
\* mobius(foldedpcf.A() * U(1)^-1 * pcf.A()^-1, limit) when det U(1) # 0
C15_SingularTransport ==
    (ret.op = "get_folded_pcf_limit") =>
        LET foldedmat == fold_matrix(RecurrenceMatrix(ret.pcf), ret.factor)
            foldedpcf == as_pcf(foldedmat, ret.deflate_all)
            U1 == MatAt(as_pcf_cob(foldedmat, ret.deflate_all), 1)
        IN  IF NumDet(U1)[1] = 0
            THEN ret.out = [kind |-> "error", err |-> "SingularCoboundaryMatrixError"]
            ELSE ret.out = mobius(NumMatMul(NumMatMul(MatAt(A(foldedpcf), 0), NumInv(U1)),
                                            NumInv(MatAt(A(ret.pcf), 0))),
                                  ret.limit)

\* 10^digits * |x - y| < 1 for rationals x and y; beyond 9 digits, x = y
AgreeTo(x, y, digits) ==
    LET diff == RatAdd(x, RatMul(<<-1, 1>>, y))
    IN  IF digits > 9 THEN diff[1] = 0
        ELSE IF digits >= 0 THEN Abs(diff[1]) <= (diff[2] - 1) \div Pow(10, digits)
        ELSE Abs(diff[1]) < diff[2] * Pow(10, -digits)

\* C16: the limit of a PCF at depth d, transported through
\* get_folded_pcf_limit where the coboundary matrix is nonsingular at n = 1,
\* agrees with the own limit of the folded PCF at depth floor(d/k) to the
\* lesser of the two precisions
C16_FoldRoundTrip ==
    (ret.op = "get_folded_pcf_limit" /\ ret.deflate_all) =>
        \A d \in RoundTripDepths :
            LET foldedmat == fold_matrix(RecurrenceMatrix(ret.pcf), ret.factor)
                original == limit(Recv, d, NoInit)
                folded == fold_pcf(ret.pcf, ret.factor)
                own == IF folded.kind # "pcf" THEN folded
                       ELSE limit(folded.pcf, d \div ret.factor, NoInit)
            IN  ( /\ original.kind = "limit" /\ ret.limit = original.result
                  /\ NumDet(MatAt(as_pcf_cob(foldedmat, TRUE), 1))[1] # 0
                  /\ own.kind # "out_of_range" ) =>
                    /\ ret.out.kind = "value" /\ ret.out.v.k = "num"
                    /\ own.kind = "limit" /\ own.result.k = "num"
                    /\ AgreeTo(ret.out.v.v, own.result.v, Min(original.prec, own.prec))

FoldIndices == 1 .. 3

RECURSIVE NumProduct(_, _, _)
\* matrix(from) * matrix(from + 1) * ... * matrix(to) in rational numbers
NumProduct(matrix, from, to) ==
    IF from > to THEN <<(<<1, 1>>), (<<0, 1>>), (<<0, 1>>), (<<1, 1>>)>>
    ELSE NumMatMul(MatAt(matrix, from), NumProduct(matrix, from + 1, to))

\* the last call folded the matrix M of a PCF that has the method M
IsFold == ret.op = "get_folded_pcf_limit" /\ ret.pcf.cls = "ramanujantools.pcf.PCF"

\* C22: fold_matrix(M, k) at index n is the ordered product M(k*n - k + 1) *
\* ... * M(k*n), so the product of the folded matrix over 1..N is the product
\* of M over 1..k*N, and fold_matrix(M, 1) = M
C22_FoldIsOrderedProduct ==
    IsFold =>
        \A folded \in {fold_matrix(RecurrenceMatrix(ret.pcf), ret.factor)} :
            /\ \A i \in FoldIndices :
                  MatAt(folded, i) = NumProduct(RecurrenceMatrix(ret.pcf),
                                                ret.factor * i - ret.factor + 1, ret.factor * i)
            /\ \A N \in FoldIndices :
                  NumProduct(folded, 1, N) =
                      NumProduct(RecurrenceMatrix(ret.pcf), 1, ret.factor * N)
            /\ ret.factor = 1 =>
                  \A i \in FoldIndices : MatAt(folded, i) = MatAt(RecurrenceMatrix(ret.pcf), i)

\* a fold by 2 of a matrix whose two factors at index 1 differ
C22_Witness ==
    /\ IsFold /\ ret.factor = 2
    /\ MatAt(RecurrenceMatrix(ret.pcf), 1) # MatAt(RecurrenceMatrix(ret.pcf), 2)
    /\ MatAt(fold_matrix(RecurrenceMatrix(ret.pcf), 2), 1) # MatAt(RecurrenceMatrix(ret.pcf), 2)

\* the folded matrix of the last call: a polynomial matrix [[a, b], [c, d]]
\* that as_pcf accepts
FoldedMatrix == fold_matrix(RecurrenceMatrix(ret.pcf), ret.factor)

\* the two sides of the coboundary relation of matrix at index i
CoboundarySides(matrix, deflate, i) ==
    CHOOSE sides \in
      { <<[j \in 1..4 |-> RatMul(Eval(t[3][1], i).v,
                                 NumMatMul(MatAt(matrix, i), MatAt(t[2], i + 1))[j])],
          [j \in 1..4 |-> RatMul(Eval(t[3][2], i).v,
                                 NumMatMul(MatAt(t[2], i), MatAt(RecurrenceMatrix(t[1]), i))[j])]>> :
        t \in { <<as_pcf(matrix, deflate), as_pcf_cob(matrix, deflate),
                  as_pcf_polys(matrix, deflate)>> } } : TRUE

\* the last call folded to a polynomial matrix whose PCF, deflated by the
\* content or not, is a polynomial PCF
IsPolynomialFold ==
    /\ IsFold
    /\ \A j \in 1..4 : IsPolynomial(FoldedMatrix[j])
    /\ \A P \in {as_pcf(FoldedMatrix, ret.deflate_all)} : IsPolynomial(P.a) /\ IsPolynomial(P.b)

\* C23: for a polynomial matrix M with P = as_pcf(M), U = as_pcf_cob(M) and
\* (g1, g2) = as_pcf_polys(M), g1(n) * M(n) * U(n + 1) = g2(n) * U(n) *
\* [[0, P.b(n)], [1, P.a(n)]] at every index n, deflating or not
C23_CoboundaryRelation ==
    IsPolynomialFold =>
        \A i \in FoldIndices :
            \A sides \in {CoboundarySides(FoldedMatrix, ret.deflate_all, i)} :
                sides[1] = sides[2]

\* a fold with deflation where eta is not 1 and neither side is 0 at n = 1
C23_Witness ==
    /\ IsPolynomialFold /\ ret.deflate_all
    /\ as_pcf_eta(FoldedMatrix, TRUE) # One
    /\ \E j \in 1..4 : CoboundarySides(FoldedMatrix, TRUE, 1)[1][j][1] # 0

\* C24: inflate_to_polynomial(pcf, deflate_all) returns a PCF whose a and b have
\* no denominators and the factor f = lcm of the denominators of a and b,
\* divided by the content when deflating, and the PCF returned is
\* pcf.inflate(f) in a and b
C24_InflateToPolynomial ==
    (ret.op = "inflate_to_polynomial") =>
        /\ IsPolynomial(ret.out.pcf.a) /\ IsPolynomial(ret.out.pcf.b)
        /\ \A polynomial \in {inflate(Recv, DenominatorLcm(Recv.a, Recv.b))} :
              ret.out.factor =
                  Mul(DenominatorLcm(Recv.a, Recv.b),
                      Inv(IF ret.deflate_all THEN content(polynomial.a, polynomial.b) ELSE One))
        /\ \A inflated \in {inflate(Recv, ret.out.factor)} :
              ret.out.pcf.a = inflated.a /\ ret.out.pcf.b = inflated.b

\* a PCF with denominators was made polynomial and deflated, the content being
\* more than a constant 1
C24_Witness ==
    /\ ret.op = "inflate_to_polynomial" /\ ret.deflate_all
    /\ DenominatorLcm(Recv.a, Recv.b) # One
    /\ ret.out.factor # DenominatorLcm(Recv.a, Recv.b)
    /\ ret.out.pcf.a # Recv.a

(***************************************************************************)
(* PCFDynamics: the convergent a depth stands for, the depths of the fits, *)
(* the shape of the fitted coefficients.                                   *)
(***************************************************************************)
\* C25: for every depth d >= 1, errors and q_reds take the value of depth d
\* from the same convergent, the d-th one pcf.A() * M1 * ... * Md, which
\* pcf.limit counts as index d + CIDS - 1 (0 <-> I, 1 <-> pcf.A(), 2 <->
\* pcf.A() * M1)
C25_UniformIndexOffset ==
    (ret.op \in {"errors", "q_reds"} /\ ret.out.kind # "error") =>
        \A i \in 1 .. Len(ret.out.depths) :
            ret.out.convergents[i] = ret.out.depths[i] + CIDS - 1

\* the last call was one of the two fits of PCFDynamics
IsFit == ret.op \in {"PCFDynamics.convergence_rate", "q_reduced_growth_rate"}

\* C28: for every depth >= 1, depths_for_fit(depth) is strictly increasing,
\* drawn from {6, depth // 8, depth // 4, depth // 2, depth} and has every
\* sample depth >= 1, so neither fit fails with a depth-must-be-positive or
\* an index error for a positive depth
C28_FitDepthsPositive ==
    (IsFit /\ ret.depth >= 1) =>
        \A fit_depths \in {depths_for_fit(ret.depth)} :
            /\ \A i \in 1 .. Len(fit_depths) - 1 : fit_depths[i] < fit_depths[i + 1]
            /\ \A i \in 1 .. Len(fit_depths) :
                  /\ fit_depths[i] \in {6, ret.depth \div 8, ret.depth \div 4,
                                        ret.depth \div 2, ret.depth}
                  /\ fit_depths[i] >= 1
            /\ ~(ret.out.kind = "error" /\ ret.out.err \in {"ValueError", "KeyError"})

\* C30: PCFDynamics.convergence_rate returns exactly three coefficients
\* (A, B, C) in both fit modes, with A = 0 when fit_NOA is set, the shape
\* q_reduced_growth_rate returns in its reduced mode
C30_ConvergenceRateShape ==
    (ret.op = "PCFDynamics.convergence_rate" /\ ret.out.kind = "params") =>
        /\ Len(ret.out.v) = 3
        /\ ret.fit_NOA => ret.out.v[1] = 0

\* C26: with as_in_blind_delta set, q_reduced_growth_rate fits the model of
\* three parameters first, whatever fit_NOA is, and returns (0, B, C) from a
\* second fit of two parameters exactly when |A| of the first is below 0.05
\* (5 hundredths), the first fit (A, B, C) otherwise; in every mode a result
\* has exactly three components
C26_ModelSelection ==
    (ret.op = "q_reduced_growth_rate") =>
        /\ ret.out.kind = "params" => Len(ret.out.v) = 3
        /\ (ret.as_in_blind_delta /\ ret.fits # <<>> /\ ret.fits[1].kind = "params") =>
              /\ Len(ret.fits[1].v) = 3
              /\ IF Abs(ret.fits[1].v[1]) < 5
                 THEN /\ Len(ret.fits) = 2
                      /\ ret.fits[2].kind = "params" =>
                            /\ Len(ret.fits[2].v) = 2
                            /\ ret.out.kind = "params"
                            /\ ret.out.v = <<0>> \o ret.fits[2].v
                 ELSE Len(ret.fits) = 1 /\ ret.out = ret.fits[1]

\* the model selection kept a full fit whose A is at the tolerance and below
\* zero, with fit_NOA set
C26_Witness ==
    /\ ret.op = "q_reduced_growth_rate" /\ ret.as_in_blind_delta /\ ret.fit_NOA
    /\ ret.out.kind = "params" /\ ret.out.v[1] = -5
    /\ Len(ret.fits) = 1

(***************************************************************************)
(* compute_dynamics: the depths of its attempts.                           *)
(***************************************************************************)
\* C29: in compute_dynamics the i-th attempt at delta is made at depth +
\* (i - 1) * depth_shift and the first finite value ends the attempts; the
\* attempts at the convergence rate start again from the original depth,
\* however many attempts delta took; and when delta is None at every
\* attempted depth all max_iters attempts are made and +inf is reported
C29_AttemptDepths ==
    (ret.op = "compute_dynamics") =>
        \A passes \in {DeltaPasses(Recv, ret.depth, 0, ret.max_iters, ret.depth_shift,
                                   [kind |-> "inf"])} :
            /\ passes = IF DeltaSuccesses = {} THEN Max(ret.max_iters, 0)
                        ELSE SetMin(DeltaSuccesses) + 1
            /\ DeltaSuccesses # {} => ret.out.delta = delta(Recv, PassDepth(passes - 1))
            /\ ret.out.convrate =
                  ConvrateLoop(Recv, PassDepth(0), 0, ret.max_iters, ret.depth_shift)
            /\ ConvrateSuccesses # {} =>
                  ret.out.convrate = convergence_rate(Recv, PassDepth(SetMin(ConvrateSuccesses)))
            /\ (\A k \in 0 .. ret.max_iters - 1 : delta(Recv, PassDepth(k)).kind = "None") =>
                  passes = Max(ret.max_iters, 0) /\ ret.out.delta = [kind |-> "inf"]

\* delta is None at both attempted depths, both attempts were made, +inf is
\* reported, and the convergence rate is the one of the original depth
C29_Witness ==
    /\ ret.op = "compute_dynamics" /\ ret.max_iters = 2
    /\ \A k \in 0 .. 1 : delta(Recv, PassDepth(k)).kind = "None"
    /\ DeltaPasses(Recv, ret.depth, 0, ret.max_iters, ret.depth_shift, [kind |-> "inf"]) = 2
    /\ ret.out.delta.kind = "inf"
    /\ ret.out.convrate.kind = "value"
    /\ ret.out.convrate = convergence_rate(Recv, ret.depth)

(***************************************************************************)
(* The process-wide precision.                                             *)
(***************************************************************************)
\* C27: no operation changes or depends on the process-wide setting mm.mp.dps:
\* each computes in a private context made by mp(precision), so precision and
\* limit return what they return in a process whose setting was never touched
C27_NoAmbientPrecision ==
    /\ (ret.op = "precision") =>
           ret.out = precision_at(ret.matrix, ret.base, DefaultDps)
    /\ (ret.op = "limit" /\ ret.out.kind = "limit") =>
           ret.out.prec = precision_at(step(Recv, ret.depth, ret.init, 0).mat, 10, DefaultDps)

====
